---- MODULE Spec2Model ----
(***************************************************************************)
(* Model of the cache-aside read/write handlers (routes/users.js,          *)
(* routes/products.js, routes/orders.js), of the bottleneck scenarios      *)
(* (bottlenecks/scenarios.js) and of the metrics they update (metrics.js). *)
(*                                                                         *)
(* One Node.js event loop runs every handler.  A handler is a sequence of  *)
(* steps separated by its awaits; a step is the effect of the awaited call *)
(* on Redis / MongoDB together with the continuation that runs up to the   *)
(* next await.  The synchronous loops of cpuIntensive and blockEventLoop   *)
(* are several steps of one task that holds the event loop (running).      *)
(* The Redis server and the wall clock are independent of the event loop:  *)
(* Tick may happen between any two steps.                                  *)
(***************************************************************************)
EXTENDS Integers, Sequences, FiniteSets, TLC

(***************************************************************************)
(* JavaScript values of query parameters: undefined, a string (a sequence  *)
(* of one-character strings), a number, NaN, a parsed float.               *)
(***************************************************************************)
Undef == <<"undef">>

NaN == <<"nan">>

Str(s) == <<"str", s>>

Num(n) == <<"num", n>>

Flt(n, frac) == <<"flt", n, frac>>

IsStr(v) == v[1] = "str"

IsNum(v) == v[1] = "num"

Digits == <<"0", "1", "2", "3", "4", "5", "6", "7", "8", "9">>

IsDigit(c) == \E i \in 1..10 : Digits[i] = c

DigitVal(c) == (CHOOSE i \in 1..10 : Digits[i] = c) - 1

\* if (v), v || d
Truthy(v) ==
  CASE v[1] = "undef" -> FALSE
    [] v[1] = "nan" -> FALSE
    [] v[1] = "str" -> Len(v[2]) > 0
    [] v[1] = "num" -> v[2] # 0
    [] OTHER -> TRUE

Or(v, d) == IF Truthy(v) THEN v ELSE d

\* const { page = 1 } = req.query : the default replaces undefined only
Default(v, d) == IF v = Undef THEN d ELSE v

RECURSIVE NatToStr(_)
NatToStr(n) ==
  IF n < 10 THEN <<Digits[n + 1]>>
  ELSE NatToStr(n \div 10) \o <<Digits[(n % 10) + 1]>>

\* `${v}`
ToStr(v) ==
  CASE v[1] = "undef" -> <<"u", "n", "d", "e", "f", "i", "n", "e", "d">>
    [] v[1] = "nan" -> <<"N", "a", "N">>
    [] v[1] = "str" -> v[2]
    [] v[1] = "num" -> IF v[2] < 0 THEN <<"-">> \o NatToStr(-v[2])
                       ELSE NatToStr(v[2])
    [] OTHER -> <<"?">>

RECURSIVE SkipWs(_)
SkipWs(s) == IF Len(s) > 0 /\ s[1] = " " THEN SkipWs(Tail(s)) ELSE s

RECURSIVE DigitPrefix(_)
DigitPrefix(s) ==
  IF Len(s) > 0 /\ IsDigit(s[1]) THEN <<s[1]>> \o DigitPrefix(Tail(s))
  ELSE <<>>

RECURSIVE DigitsVal(_)
DigitsVal(s) ==
  IF Len(s) = 0 THEN 0
  ELSE 10 * DigitsVal(SubSeq(s, 1, Len(s) - 1)) + DigitVal(s[Len(s)])

RECURSIVE StripZeros(_)
StripZeros(s) ==
  IF Len(s) > 0 /\ s[Len(s)] = "0" THEN StripZeros(SubSeq(s, 1, Len(s) - 1))
  ELSE s

\* parseInt(v): the argument is converted to a string; leading white space,
\* an optional sign and the longest prefix of decimal digits are read
parseInt(v) ==
  LET s == SkipWs(ToStr(v))
      neg == Len(s) > 0 /\ s[1] = "-"
      body == IF Len(s) > 0 /\ s[1] \in {"-", "+"} THEN Tail(s) ELSE s
      ds == DigitPrefix(body)
  IN IF Len(ds) = 0 THEN NaN
     ELSE Num(IF neg THEN -DigitsVal(ds) ELSE DigitsVal(ds))

\* parseFloat(v): as parseInt, followed by an optional fraction
parseFloat(v) ==
  LET s == SkipWs(ToStr(v))
      neg == Len(s) > 0 /\ s[1] = "-"
      body == IF Len(s) > 0 /\ s[1] \in {"-", "+"} THEN Tail(s) ELSE s
      ds == DigitPrefix(body)
      rest == SubSeq(body, Len(ds) + 1, Len(body))
      fs == IF Len(rest) > 0 /\ rest[1] = "." THEN DigitPrefix(Tail(rest))
            ELSE <<>>
  IN IF Len(ds) = 0 /\ Len(fs) = 0 THEN NaN
     ELSE Flt(IF neg THEN -DigitsVal(ds) ELSE DigitsVal(ds), StripZeros(fs))

Sub(a, b) == IF IsNum(a) /\ IsNum(b) THEN Num(a[2] - b[2]) ELSE NaN

Mul(a, b) == IF IsNum(a) /\ IsNum(b) THEN Num(a[2] * b[2]) ELSE NaN

Colon == <<":">>

StartsWith(s, p) == Len(s) >= Len(p) /\ SubSeq(s, 1, Len(p)) = p

(***************************************************************************)
(* Cache keys and effective database queries of the three list endpoints.  *)
(* q is req.query: a record of raw parameters.                             *)
(***************************************************************************)
UsersPrefix == <<"u", "s", "e", "r", "s", ":">>

ProductsPrefix == <<"p", "r", "o", "d", "u", "c", "t", "s", ":">>

OrdersPrefix == <<"o", "r", "d", "e", "r", "s", ":">>

ProductPrefix == <<"p", "r", "o", "d", "u", "c", "t", ":">>

OrderPrefix == <<"o", "r", "d", "e", "r", ":">>

All == Str(<<"a", "l", "l">>)

Max == Str(<<"m", "a", "x">>)

usersPage(q) == Or(parseInt(q.page), Num(1))

usersLimit(q) == Or(parseInt(q.limit), Num(10))

usersCacheKey(q) ==
  UsersPrefix \o ToStr(usersPage(q)) \o Colon \o ToStr(usersLimit(q))

usersQuery(q) ==
  [filter |-> <<>>,
   skip |-> Mul(Sub(usersPage(q), Num(1)), usersLimit(q)),
   limit |-> usersLimit(q)]

productsCacheKey(q) ==
  ProductsPrefix \o ToStr(Or(q.category, All)) \o Colon
    \o ToStr(Or(q.minPrice, Num(0))) \o Colon
    \o ToStr(Or(q.maxPrice, Max)) \o Colon
    \o ToStr(Default(q.page, Num(1))) \o Colon
    \o ToStr(Default(q.limit, Num(20)))

productsQuery(q) ==
  [filter |-> <<IF Truthy(q.category) THEN q.category ELSE Undef,
                IF Truthy(q.minPrice) THEN parseFloat(q.minPrice) ELSE Undef,
                IF Truthy(q.maxPrice) THEN parseFloat(q.maxPrice) ELSE Undef>>,
   skip |-> Mul(Sub(parseInt(Default(q.page, Num(1))), Num(1)),
                parseInt(Default(q.limit, Num(20)))),
   limit |-> parseInt(Default(q.limit, Num(20)))]

ordersCacheKey(q) ==
  OrdersPrefix \o ToStr(Or(q.status, All)) \o Colon
    \o ToStr(Or(q.userId, All)) \o Colon
    \o ToStr(Default(q.page, Num(1))) \o Colon
    \o ToStr(Default(q.limit, Num(10)))

ordersQuery(q) ==
  [filter |-> <<IF Truthy(q.status) THEN q.status ELSE Undef,
                IF Truthy(q.userId) THEN q.userId ELSE Undef>>,
   skip |-> Mul(Sub(parseInt(Default(q.page, Num(1))), Num(1)),
                parseInt(Default(q.limit, Num(10)))),
   limit |-> parseInt(Default(q.limit, Num(10)))]

productCacheKey(id) == ProductPrefix \o NatToStr(id)

orderCacheKey(id) == OrderPrefix \o NatToStr(id)


(***************************************************************************)
(* Bounds of the model.                                                    *)
(***************************************************************************)
\* handlers that can be in flight at once
NumTasks == 2

\* requests accepted in one behaviour
MaxRequests == 2

\* requests accepted in one behaviour in which no two handlers overlap
SeqMaxRequests == 3

\* seconds that pass in one Tick
TickSeconds == 60

\* milliseconds that one iteration of a synchronous scenario loop takes
LoopStepMs == 400

Tasks == 1..NumTasks

(***************************************************************************)
(* Documents, JSON.                                                        *)
(***************************************************************************)
Null == <<"null">>

Doc(coll, i, st) ==
  [coll |-> coll, id |-> i, status |-> st, createdAt |-> <<"date", i>>]

\* Date.prototype.toJSON: a Date is written as an ISO string; a string
\* is written as itself
DocToJSON(d) == [d EXCEPT !.createdAt = <<"iso", d.createdAt[2]>>]

\* JSON.stringify of an array of documents or of one document
JSONstringify(v) ==
  IF v[1] = "arr"
  THEN <<"text", <<"arr", [i \in DOMAIN v[2] |-> DocToJSON(v[2][i])]>> >>
  ELSE <<"text", <<"obj", DocToJSON(v[2])>> >>

\* JSON.parse: dates are not revived, they stay strings
JSONparse(text) == text[2]

(***************************************************************************)
(* Requests.                                                               *)
(***************************************************************************)
EmptyQuery ==
  [page |-> Undef, limit |-> Undef, category |-> Undef, minPrice |-> Undef,
   maxPrice |-> Undef, status |-> Undef, userId |-> Undef]

RegisteredScenarios ==
  {"cpuIntensive", "memoryIntensive", "blockEventLoop", "slowIO",
   "dbConnectionLeak"}

\* properties every object literal inherits from Object.prototype:
\* functions that return when called without arguments, and __proto__,
\* which is an object and not callable
InheritedFunctions == {"constructor", "toString"}

InheritedObjects == {"__proto__"}

ScenarioInputs ==
  RegisteredScenarios \cup InheritedFunctions \cup InheritedObjects
    \cup {"nonexistent"}

\* scenarios[scenario]
ScenarioLookup(name) ==
  IF name \in RegisteredScenarios THEN "scenario"
  ELSE IF name \in InheritedFunctions THEN "function"
  ELSE IF name \in InheritedObjects THEN "object"
  ELSE "undefined"

cpuIntensiveDefault == 1000

memoryIntensiveDefault == 50

memoryIntensiveWait == 100

blockEventLoopDefault == 500

slowIODefault == 2000

\* the parameter of a scenario: its default when called without argument
ScenarioParam(name, arg) ==
  IF arg # Undef THEN arg[2]
  ELSE CASE name = "cpuIntensive" -> cpuIntensiveDefault
         [] name = "memoryIntensive" -> memoryIntensiveDefault
         [] name = "blockEventLoop" -> blockEventLoopDefault
         [] name = "slowIO" -> slowIODefault
         [] OTHER -> 0

\* createBottleneck calls scenarios[scenario]() without arguments
createBottleneckArg(name) == Undef

\* param: a number sent in the body next to `scenario`, or undefined
Req(ep, id, scenario, status) ==
  [ep |-> ep, q |-> EmptyQuery, id |-> id, scenario |-> scenario,
   status |-> status, param |-> Undef]

NoReq == Req("none", 0, "", "")

ByIdInputs == {1, 2}

StatusInputs == {"shipped"}

\* GET /api/users?page=2
UsersPage2 ==
  [Req("GET_users", 0, "", "") EXCEPT !.q.page = Str(<<"2">>)]

ReadRequests ==
  {Req("GET_users", 0, "", ""), UsersPage2, Req("GET_products", 0, "", ""),
   Req("GET_orders", 0, "", "")}
    \cup {Req("GET_product", i, "", "") : i \in ByIdInputs}
    \cup {Req("GET_order", i, "", "") : i \in ByIdInputs}

WriteRequests ==
  {Req("POST_users", 0, s, "") : s \in ScenarioInputs \cup {""}}
    \cup {Req("POST_orders", 0, s, "") : s \in ScenarioInputs \cup {""}}
    \cup {Req("POST_products", 0, "", "")}
    \cup {Req("PUT_order_status", i, "", st) :
            i \in ByIdInputs, st \in StatusInputs}

Requests == ReadRequests \cup WriteRequests

IsRead(r) == r.ep \in {"GET_users", "GET_products", "GET_product",
                       "GET_orders", "GET_order"}

\* const cacheKey = ...
CacheKeyOf(r) ==
  CASE r.ep = "GET_users" -> usersCacheKey(r.q)
    [] r.ep = "GET_products" -> productsCacheKey(r.q)
    [] r.ep = "GET_orders" -> ordersCacheKey(r.q)
    [] r.ep = "GET_product" -> productCacheKey(r.id)
    [] r.ep = "GET_order" -> orderCacheKey(r.id)
    [] OTHER -> <<>>

\* the seconds given to setex
UsersListTTL == 60

ProductsListTTL == 300

ProductByIdTTL == 600

OrdersListTTL == 120

OrderByIdTTL == 300

\* every setex with the TTL of the product by id
TTLOfProductById(r) == ProductByIdTTL

\* the TTL that the handler of a read passes to setex
TTLOf(r) ==
  CASE r.ep = "GET_users" -> UsersListTTL
    [] r.ep = "GET_products" -> ProductsListTTL
    [] r.ep = "GET_orders" -> OrdersListTTL
    [] r.ep = "GET_product" -> ProductByIdTTL
    [] r.ep = "GET_order" -> OrderByIdTTL
    [] OTHER -> 0

\* the collection a handler works on
CollOf(r) ==
  CASE r.ep \in {"GET_users", "POST_users"} -> "users"
    [] r.ep \in {"GET_products", "GET_product", "POST_products"} -> "products"
    [] OTHER -> "orders"

\* the pattern given to redis.keys by a write handler, without its '*'
InvalidationPrefix(r) ==
  CASE r.ep = "POST_users" -> UsersPrefix
    [] r.ep = "POST_products" -> ProductsPrefix
    [] OTHER -> OrdersPrefix


(***************************************************************************)
(* State.                                                                  *)
(***************************************************************************)
VARIABLES
  cache,        \* Redis: key -> [val, ttl (seconds left), age (seconds since setex)]
  keyHist,      \* history: the last thing that happened to each read key
  findsStored,  \* history: database computations for a key begun while it is stored
  db,           \* MongoDB: documents per collection
  tasks,        \* the handlers in flight: position and locals
  running,      \* the task whose synchronous loop holds the event loop, or 0
  cacheOps,     \* cache_operations_total{get, hit | miss}
  dbSamples,    \* db_query_duration_seconds: observations per (operation, collection)
  started,      \* requests accepted so far
  connections,  \* connections opened by dbConnectionLeak and never closed
  probe,        \* two requests of one list endpoint with their keys and queries
  exchanges,    \* the HTTP exchanges open in the Express pipeline
  httpDuration,        \* http_request_duration_seconds: observations per labels
  httpRequestCounter   \* http_requests_total: value per labels

httpVars == <<exchanges, httpDuration, httpRequestCounter>>

vars ==
  <<cache, keyHist, findsStored, db, tasks, running, cacheOps, dbSamples,
    started, connections, probe, httpVars>>

ReadKeys == {CacheKeyOf(r) : r \in ReadRequests}

DbLabels ==
  {<<"find", "users">>, <<"insert", "users">>, <<"find", "products">>,
   <<"insert", "products">>, <<"findById", "products">>,
   <<"find", "orders">>, <<"insert", "orders">>, <<"findById", "orders">>,
   <<"update", "orders">>}

\* messages of the errors that a rejected Redis or MongoDB call carries
ErrorMessages == {"read ECONNRESET", "operation timed out"}

NoResp == [status |-> 0, body |-> <<"none">>]

IdleTask ==
  [pc |-> "idle", req |-> NoReq, val |-> Null, keys |-> {}, pre |-> {},
   i |-> 0, elapsed |-> 0, resp |-> NoResp, cause |-> ""]

NoQuery == [filter |-> <<>>, skip |-> NaN, limit |-> NaN]

NoProbe ==
  [ep |-> "none", a |-> EmptyQuery, b |-> EmptyQuery, keyA |-> <<>>,
   keyB |-> <<>>, queryA |-> NoQuery, queryB |-> NoQuery]

(***************************************************************************)
(* Redis commands.                                                         *)
(***************************************************************************)
\* a GET that never finds the key
RedisGetValueAbsent(c, k) == Null

\* GET key
RedisGetValue(c, k) == IF k \in DOMAIN c THEN c[k].val ELSE Null

\* SETEX key seconds value
RedisSetexResult(c, k, n, v) ==
  [x \in DOMAIN c \cup {k} |->
     IF x = k THEN [val |-> v, ttl |-> n, age |-> 0] ELSE c[x]]

\* KEYS * : the pattern matches every key
RedisKeysResultAll(c, prefix) == DOMAIN c

\* KEYS prefix*
RedisKeysResult(c, prefix) == {k \in DOMAIN c : StartsWith(k, prefix)}

\* DEL key...
RedisDelResult(c, ks) == [x \in DOMAIN c \ ks |-> c[x]]

\* the passing of d seconds: entries whose time is up are removed
RedisExpire(c, d) ==
  [x \in {k \in DOMAIN c : c[k].ttl > d} |->
     [val |-> c[x].val, ttl |-> c[x].ttl - d, age |-> c[x].age + d]]

(***************************************************************************)
(* MongoDB queries.                                                        *)
(***************************************************************************)
CountOf(d, coll) ==
  CASE coll = "users" -> d.users
    [] coll = "products" -> d.products
    [] OTHER -> Len(d.orders)

DocAt(d, coll, i) ==
  Doc(coll, i, IF coll = "orders" THEN d.orders[i] ELSE "none")

\* Model.find(filter).skip(s).limit(l).lean()
FindDocs(d, coll, query) ==
  LET lo == query.skip[2] + 1
      hi == IF CountOf(d, coll) < query.skip[2] + query.limit[2]
            THEN CountOf(d, coll) ELSE query.skip[2] + query.limit[2]
      len == IF hi >= lo THEN hi - lo + 1 ELSE 0
  IN <<"arr", [i \in 1..len |-> DocAt(d, coll, lo + i - 1)]>>

\* Model.findById(id)
FindById(d, coll, id) ==
  IF id \in 1..CountOf(d, coll) THEN <<"obj", DocAt(d, coll, id)>> ELSE Null

QueryOf(r) ==
  CASE r.ep = "GET_users" -> usersQuery(r.q)
    [] r.ep = "GET_products" -> productsQuery(r.q)
    [] OTHER -> ordersQuery(r.q)

\* what a read would compute from the database now
Compute(d, r) ==
  IF r.ep \in {"GET_product", "GET_order"} THEN FindById(d, CollOf(r), r.id)
  ELSE FindDocs(d, CollOf(r), QueryOf(r))

(***************************************************************************)
(* Steps of the handlers.                                                  *)
(***************************************************************************)
\* req.route before a route has matched
NoRoute == [matched |-> FALSE, method |-> "", path |-> <<>>]

\* an HTTP request: method, path (its segments), JSON body well formed or not
HttpReq(method, path, malformed) ==
  [method |-> method, path |-> path, malformed |-> malformed]

NoExchange ==
  [phase |-> "idle", req |-> HttpReq("", <<>>, FALSE), route |-> NoRoute,
   listening |-> FALSE, status |-> 0]

Init ==
  /\ cache = <<>>
  /\ keyHist = [k \in ReadKeys |-> "never"]
  /\ findsStored = [k \in ReadKeys |-> 0]
  /\ db = [users |-> 0, products |-> 1, orders |-> <<"pending">>]
  /\ tasks = [t \in Tasks |-> IdleTask]
  /\ running = 0
  /\ cacheOps = [hit |-> 0, miss |-> 0]
  /\ dbSamples = [l \in DbLabels |-> 0]
  /\ started = 0
  /\ connections = 0
  /\ probe = NoProbe
  /\ exchanges = [x \in Tasks |-> NoExchange]
  /\ httpDuration = <<>>
  /\ httpRequestCounter = <<>>

\* history: a database computation for key k begins
FindsAfterQuery(k) ==
  IF k \in DOMAIN cache THEN [findsStored EXCEPT ![k] = @ + 1] ELSE findsStored

\* history: the keys that are no longer stored count from 0 again
FindsAfterRemoval(c) ==
  [k \in ReadKeys |-> IF k \in DOMAIN c THEN findsStored[k] ELSE 0]

\* a request is given the first free slot: the slots are interchangeable
FreeSlot(t) ==
  /\ tasks[t].pc = "idle"
  /\ \A u \in Tasks : u < t => tasks[u].pc # "idle"

\* res.status(s).json(b): the handler is over, its locals are gone
Responded(t, status, body, cause) ==
  [IdleTask EXCEPT !.pc = "done", !.req = tasks[t].req,
                   !.resp = [status |-> status, body |-> body],
                   !.cause = cause]

\* catch (error) { res.status(500).json({ error: error.message }) }
Caught(t, cause) ==
  \E m \in ErrorMessages :
    tasks' = [tasks EXCEPT ![t] = Responded(t, 500, <<"error", m>>, cause)]

\* a catch that answers with an empty list
CaughtReadAsEmpty(t, cause) ==
  /\ tasks' = [tasks EXCEPT ![t] =
       Responded(t, 200, JSONstringify(<<"arr", <<>>>>), cause)]
  /\ UNCHANGED keyHist

\* the same, in a read handler after its miss; history: the read of the
\* key has failed
CaughtRead(t, cause) ==
  /\ Caught(t, cause)
  /\ keyHist' = [k \in ReadKeys |->
       IF k = CacheKeyOf(tasks[t].req) /\ keyHist[k] = "missed"
       THEN "failed" ELSE keyHist[k]]

\* an observation that is recorded twice
ObserveTwice(op, coll) ==
  dbSamples' = [dbSamples EXCEPT ![<<op, coll>>] = @ + 2]

\* dbQueryDuration.labels(op, coll).observe(seconds): one more sample
Observe(op, coll) == dbSamples' = [dbSamples EXCEPT ![<<op, coll>>] = @ + 1]

\* a read request arrives: the key is built and redis.get is awaited
AcceptRead(t, budget, reqs) ==
  /\ running = 0
  /\ FreeSlot(t)
  /\ started < budget
  /\ \E r \in reqs :
       tasks' = [tasks EXCEPT ![t] = [IdleTask EXCEPT !.pc = "get", !.req = r]]
  /\ started' = started + 1
  /\ UNCHANGED <<cache, keyHist, db, running, cacheOps, dbSamples,
                 connections, probe, httpVars, findsStored>>

StartRead(t) == AcceptRead(t, MaxRequests, ReadRequests)

FindPc(r) == IF r.ep \in {"GET_product", "GET_order"} THEN "findById" ELSE "find"

\* an increment computed from a value read before other handlers ran:
\* the first increment of a label is kept, the later ones are lost
IncLost(counter, result) == [counter EXCEPT ![result] = 1]

\* cacheHitRate.labels('get', result).inc()
Inc(counter, result) == [counter EXCEPT ![result] = @ + 1]

\* a hit branch without its return: the handler goes on to the query
HitFallsThrough(t, cached) == [tasks[t] EXCEPT !.pc = FindPc(tasks[t].req)]

\* if (cached) { cacheOperations.inc(...); return res.json(JSON.parse(cached)) }
HitOutcome(t, cached) ==
  Responded(t, 200, JSONstringify(JSONparse(cached)), "hit")

\* await req.redis.get(cacheKey); if (cached) hit ... else miss
RedisGet(t) ==
  LET r == tasks[t].req
      k == CacheKeyOf(r)
      cached == RedisGetValue(cache, k)
  IN /\ running = 0
     /\ tasks[t].pc = "get"
     /\ \/ /\ Caught(t, "redis.get")
           /\ UNCHANGED <<cacheOps, keyHist>>
        \/ /\ cached # Null
           /\ cacheOps' = Inc(cacheOps, "hit")
           /\ tasks' = [tasks EXCEPT ![t] = HitOutcome(t, cached)]
           /\ UNCHANGED keyHist
        \/ /\ cached = Null
           /\ cacheOps' = Inc(cacheOps, "miss")
           /\ tasks' = [tasks EXCEPT ![t].pc = FindPc(r)]
           /\ keyHist' = [keyHist EXCEPT ![k] = "missed"]
     /\ UNCHANGED <<cache, db, running, dbSamples, started, connections, probe, httpVars,
                    findsStored>>

\* await Model.find(query).skip(skip).limit(limit).lean()
DbFind(t) ==
  LET r == tasks[t].req
      found == FindDocs(db, CollOf(r), QueryOf(r))
  IN /\ running = 0
     /\ tasks[t].pc = "find"
     /\ \/ CaughtRead(t, "db")
        \/ /\ tasks' = [tasks EXCEPT ![t].val = found, ![t].i = 0,
                          ![t].pc = IF r.ep = "GET_products" \/ Len(found[2]) = 0
                                    THEN "setex" ELSE "each"]
           /\ UNCHANGED keyHist
     /\ findsStored' = FindsAfterQuery(CacheKeyOf(r))
     /\ UNCHANGED <<cache, db, running, cacheOps, dbSamples, started,
                    connections, probe, httpVars>>

\* for (let x of list) { await User.countDocuments(...) | User.findById(...) }
DbEach(t) ==
  /\ running = 0
  /\ tasks[t].pc = "each"
  /\ \/ CaughtRead(t, "db")
     \/ /\ tasks' = [tasks EXCEPT ![t].i = @ + 1,
                       ![t].pc = IF tasks[t].i + 1 = Len(tasks[t].val[2])
                                 THEN "setex" ELSE "each"]
        /\ UNCHANGED keyHist
  /\ UNCHANGED <<cache, db, running, cacheOps, dbSamples, started,
                 connections, probe, httpVars, findsStored>>

\* await Model.findById(req.params.id); if (!doc) return 404
DbFindById(t) ==
  LET r == tasks[t].req
      found == FindById(db, CollOf(r), r.id)
  IN /\ running = 0
     /\ tasks[t].pc = "findById"
     /\ \/ CaughtRead(t, "db")
        \/ /\ found = Null
           /\ tasks' = [tasks EXCEPT ![t] =
                Responded(t, 404, <<"error", "not found">>, "notfound")]
           /\ UNCHANGED keyHist
        \/ /\ found # Null
           /\ tasks' = [tasks EXCEPT ![t].val = found,
                          ![t].pc = IF r.ep = "GET_order" THEN "user"
                                    ELSE "setex"]
           /\ UNCHANGED keyHist
     /\ findsStored' = FindsAfterQuery(CacheKeyOf(r))
     /\ UNCHANGED <<cache, db, running, cacheOps, dbSamples, started,
                    connections, probe, httpVars>>

\* await User.findById(order.userId).select('username email')
DbUserLookup(t) ==
  /\ running = 0
  /\ tasks[t].pc = "user"
  /\ \/ CaughtRead(t, "db")
     \/ /\ tasks' = [tasks EXCEPT ![t].pc = "setex"]
        /\ UNCHANGED keyHist
  /\ UNCHANGED <<cache, db, running, cacheOps, dbSamples, started,
                 connections, probe, httpVars, findsStored>>

\* the handler reads the database again when it stores
ValueToStoreFresh(d, task) == JSONstringify(Compute(d, task.req))

\* JSON.stringify(users): the value the handler computed after its miss,
\* whatever the database holds by now
ValueToStore(d, task) == JSONstringify(task.val)

FindOp(r) == IF r.ep \in {"GET_product", "GET_order"} THEN "findById" ELSE "find"

\* await req.redis.setex(cacheKey, ttl, JSON.stringify(value));
\* dbQueryDuration.observe(...); res.json(value)
RedisSetex(t) ==
  LET r == tasks[t].req
      k == CacheKeyOf(r)
      text == ValueToStore(db, tasks[t])
  IN /\ running = 0
     /\ tasks[t].pc = "setex"
     /\ \/ /\ CaughtRead(t, "redis.setex")
           /\ UNCHANGED <<cache, dbSamples, findsStored>>
        \/ /\ cache' = RedisSetexResult(cache, k, TTLOf(r), text)
           /\ keyHist' = [keyHist EXCEPT ![k] =
                IF @ = "invalidated" THEN "restored" ELSE "stored"]
           /\ findsStored' = [findsStored EXCEPT ![k] = 0]
           /\ Observe(FindOp(r), CollOf(r))
           /\ tasks' = [tasks EXCEPT ![t] =
                Responded(t, 200, JSONstringify(tasks[t].val), "miss")]
     /\ UNCHANGED <<db, running, cacheOps, started, connections, probe, httpVars>>

\* the response has been sent; the slot is free for another request
Finish(t) ==
  /\ running = 0
  /\ tasks[t].pc = "done"
  /\ tasks' = [tasks EXCEPT ![t] = IdleTask]
  /\ UNCHANGED <<cache, keyHist, db, running, cacheOps, dbSamples, started,
                 connections, probe, httpVars, findsStored>>

\* TickSeconds pass on the Redis server
Tick ==
  /\ DOMAIN cache # {} \/ \E k \in ReadKeys : keyHist[k] = "missed"
  /\ cache' = RedisExpire(cache, TickSeconds)
  /\ keyHist' = [k \in ReadKeys |->
       IF keyHist[k] = "missed" \/ (k \in DOMAIN cache /\ k \notin DOMAIN cache')
       THEN "expired" ELSE keyHist[k]]
  /\ findsStored' = FindsAfterRemoval(cache')
  /\ UNCHANGED <<db, tasks, running, cacheOps, dbSamples, started,
                 connections, probe, httpVars>>


(***************************************************************************)
(* Write handlers and the bottleneck scenarios.                            *)
(***************************************************************************)
\* the first await of a write handler after its createBottleneck
AfterScenarioPc(r) ==
  CASE r.ep = "POST_users" -> "hash"
    [] r.ep = "POST_orders" -> "items"
    [] r.ep = "POST_products" -> "save"
    [] OTHER -> "update"

\* the request once createBottleneck has resolved: the handler does not
\* read `scenario` again
AfterScenario(r) == [r EXCEPT !.scenario = "", !.param = Undef]

\* a loop that awaits in its body gives the event loop back
LoopYields(t) == 0

\* the event loop after an iteration of a synchronous scenario loop: the
\* loop has no await, the task keeps the event loop
LoopHolder(t) == t

\* a handler that does not await createBottleneck goes on at once
ScenarioNotAwaited(r) == AfterScenarioPc(r)

\* await createBottleneck(scenario) with a registered scenario: where the
\* handler is until the scenario has finished
ScenarioPc(r) ==
  CASE r.scenario \in {"cpuIntensive", "blockEventLoop"} -> "spin"
    [] r.scenario \in {"memoryIntensive", "slowIO"} -> "timer"
    [] OTHER -> "connect"

\* a wait that polls the clock keeps the event loop
TimerBusyWaits(t) == t

\* the event loop while a scenario awaits its setTimeout promise: the task
\* is suspended and the event loop is free
TimerHolder(t) == 0

\* a write request arrives; if (scenario) await createBottleneck(scenario)
AcceptWrite(t, budget, reqs) ==
  /\ running = 0
  /\ FreeSlot(t)
  /\ started < budget
  /\ started' = started + 1
  /\ \E r \in reqs :
       LET fresh == [IdleTask EXCEPT !.req = r]
           past == [IdleTask EXCEPT !.req = AfterScenario(r),
                                    !.pc = AfterScenarioPc(r)]
           kind == ScenarioLookup(r.scenario)
       IN IF r.scenario = "" \/ kind \in {"undefined", "function"}
          THEN /\ tasks' = [tasks EXCEPT ![t] = past]
               /\ UNCHANGED running
          ELSE IF kind = "object"
          THEN \* scenarios[scenario] is not a function: TypeError
               /\ tasks' = [tasks EXCEPT ![t] =
                    [fresh EXCEPT !.pc = "done",
                       !.resp = [status |-> 500,
                                 body |-> <<"error", "not a function">>],
                       !.cause = "scenario"]]
               /\ UNCHANGED running
          ELSE /\ tasks' = [tasks EXCEPT ![t] =
                    [fresh EXCEPT !.pc = ScenarioPc(r)]]
               /\ running' = CASE ScenarioPc(r) = "spin" -> LoopHolder(t)
                                [] ScenarioPc(r) = "timer" -> TimerHolder(t)
                                [] OTHER -> running
  /\ UNCHANGED <<cache, keyHist, db, cacheOps, dbSamples, connections, probe, httpVars,
                 findsStored>>

StartWrite(t) == AcceptWrite(t, MaxRequests, WriteRequests)

\* while (Date.now() - start < duration) { ... }: one iteration
Spin(t) ==
  LET r == tasks[t].req
      duration == ScenarioParam(r.scenario, createBottleneckArg(r.scenario))
  IN /\ running = t
     /\ tasks[t].pc = "spin"
     /\ tasks[t].elapsed < duration
     /\ tasks' = [tasks EXCEPT ![t].elapsed = @ + LoopStepMs]
     /\ running' = LoopHolder(t)
     /\ UNCHANGED <<cache, keyHist, db, cacheOps, dbSamples, started,
                    connections, probe, httpVars, findsStored>>

\* the loop condition is false: the scenario returns, createBottleneck
\* resolves and the handler goes on to its next await
SpinEnd(t) ==
  LET r == tasks[t].req
      duration == ScenarioParam(r.scenario, createBottleneckArg(r.scenario))
  IN /\ running = t
     /\ tasks[t].pc = "spin"
     /\ tasks[t].elapsed >= duration
     /\ tasks' = [tasks EXCEPT ![t].pc = AfterScenarioPc(r), ![t].elapsed = 0,
                                ![t].req = AfterScenario(r)]
     /\ running' = 0
     /\ UNCHANGED <<cache, keyHist, db, cacheOps, dbSamples, started,
                    connections, probe, httpVars, findsStored>>

\* await new Promise(resolve => setTimeout(resolve, delay)): the timer fires
TimerFires(t) ==
  /\ running = 0
  /\ tasks[t].pc = "timer"
  /\ tasks' = [tasks EXCEPT ![t].pc = AfterScenarioPc(tasks[t].req),
                             ![t].req = AfterScenario(tasks[t].req)]
  /\ UNCHANGED <<cache, keyHist, db, running, cacheOps, dbSamples, started,
                 connections, probe, httpVars, findsStored>>

\* a scenario that closes its connection before it returns
OpenedAndClosed(n) == n

\* the connections open after mongoose.createConnection(uri): one more
Opened(n) == n + 1

\* await mongoose.createConnection(uri), never closed
Connect(t) ==
  /\ running = 0
  /\ tasks[t].pc = "connect"
  /\ connections' = Opened(connections)
  /\ tasks' = [tasks EXCEPT ![t].pc = AfterScenarioPc(tasks[t].req),
                             ![t].req = AfterScenario(tasks[t].req)]
  /\ UNCHANGED <<cache, keyHist, db, running, cacheOps, dbSamples, started,
                 probe, httpVars, findsStored>>

\* await bcrypt.hash(password, 12); then user.save() is called
Hash(t) ==
  /\ running = 0
  /\ tasks[t].pc = "hash"
  /\ tasks' = [tasks EXCEPT ![t].pc = "save"]
  /\ UNCHANGED <<cache, keyHist, db, running, cacheOps, dbSamples, started,
                 connections, probe, httpVars, findsStored>>

\* for (let item of items) { await Product.findById(item.productId) }
\* (the requests of the model order one item)
Items(t) ==
  /\ running = 0
  /\ tasks[t].pc = "items"
  /\ \/ Caught(t, "db")
     \/ tasks' = [tasks EXCEPT ![t].pc = "save"]
  /\ UNCHANGED <<cache, keyHist, db, running, cacheOps, dbSamples, started,
                 connections, probe, httpVars, findsStored>>

\* the key prefixes of the resource kind that a write handler writes
KindPrefixes(r) ==
  CASE CollOf(r) = "users" -> {UsersPrefix}
    [] CollOf(r) = "products" -> {ProductsPrefix, ProductPrefix}
    [] OTHER -> {OrdersPrefix, OrderPrefix}

\* history: the keys of the kind of r that are stored in c
KindKeys(c, r) ==
  {k \in DOMAIN c : \E p \in KindPrefixes(r) : StartsWith(k, p)}

\* a save whose document never reaches the collection
DbAfterSaveDropped(d, coll) == d

\* await user.save() / product.save() / order.save(): the document is in
\* the collection when the promise resolves
DbAfterSave(d, coll) ==
  CASE coll = "users" -> [d EXCEPT !.users = @ + 1]
    [] coll = "products" -> [d EXCEPT !.products = @ + 1]
    [] OTHER -> [d EXCEPT !.orders = Append(@, "pending")]

\* await doc.save(); then redis.keys(prefix*) is called
Save(t) ==
  LET coll == CollOf(tasks[t].req)
  IN /\ running = 0
     /\ tasks[t].pc = "save"
     /\ \/ /\ Caught(t, "db")
           /\ UNCHANGED db
        \/ /\ db' = DbAfterSave(db, coll)
           /\ tasks' = [tasks EXCEPT ![t].pc = "keys",
                          ![t].val = <<"obj", Doc(coll, CountOf(db, coll) + 1,
                                          IF coll = "orders" THEN "pending"
                                          ELSE "none")>>,
                          ![t].pre = KindKeys(cache, tasks[t].req)]
     /\ UNCHANGED <<cache, keyHist, running, cacheOps, dbSamples, started,
                    connections, probe, httpVars, findsStored>>

\* await Order.findByIdAndUpdate(id, { status }, { new: true });
\* if (!order) return 404
Update(t) ==
  LET r == tasks[t].req
  IN /\ running = 0
     /\ tasks[t].pc = "update"
     /\ \/ /\ Caught(t, "db")
           /\ UNCHANGED db
        \/ /\ r.id \notin 1..Len(db.orders)
           /\ tasks' = [tasks EXCEPT ![t] =
                Responded(t, 404, <<"error", "not found">>, "notfound")]
           /\ UNCHANGED db
        \/ /\ r.id \in 1..Len(db.orders)
           /\ db' = [db EXCEPT !.orders[r.id] = r.status]
           /\ tasks' = [tasks EXCEPT ![t].pc = "del1",
                          ![t].val = <<"obj", DocAt(db', "orders", r.id)>>,
                          ![t].pre = KindKeys(cache, r)]
     /\ UNCHANGED <<cache, keyHist, running, cacheOps, dbSamples, started,
                    connections, probe, httpVars, findsStored>>

\* the history of the keys after an invalidation that deleted ks and that
\* covered every key beginning with one of the prefixes ps
HistAfterInvalidation(ks, ps) ==
  [k \in ReadKeys |->
     IF k \in ks \/ (keyHist[k] = "missed" /\ \E p \in ps : StartsWith(k, p))
     THEN "invalidated" ELSE keyHist[k]]

\* the history h of the keys when the write of r is answered with cache c:
\* the keys of its kind that are stored have survived a write
HistAfterWrite(h, c, r) ==
  [k \in ReadKeys |->
     IF k \in DOMAIN c /\ \E p \in KindPrefixes(r) : StartsWith(k, p)
     THEN "survived" ELSE h[k]]

\* await req.redis.del(`order:${req.params.id}`)
RedisDelOne(t) ==
  LET k == orderCacheKey(tasks[t].req.id)
  IN /\ running = 0
     /\ tasks[t].pc = "del1"
     /\ \/ /\ Caught(t, "redis.del")
           /\ UNCHANGED <<cache, keyHist, findsStored>>
        \/ /\ cache' = RedisDelResult(cache, {k})
           /\ keyHist' = HistAfterInvalidation({k} \cap DOMAIN cache, {k})
           /\ findsStored' = FindsAfterRemoval(cache')
           /\ tasks' = [tasks EXCEPT ![t].pc = "keys"]
     /\ UNCHANGED <<db, running, cacheOps, dbSamples, started, connections,
                    probe, httpVars>>

WriteOp(r) == IF r.ep = "PUT_order_status" THEN "update" ELSE "insert"

WriteStatus(r) == IF r.ep = "PUT_order_status" THEN 200 ELSE 201

\* dbQueryDuration.observe(...); res.status(201).json(doc)
WriteCompleted(t) ==
  LET r == tasks[t].req
  IN /\ Observe(WriteOp(r), CollOf(r))
     /\ tasks' = [tasks EXCEPT ![t] =
          Responded(t, WriteStatus(r), JSONstringify(tasks[t].val), "written")]

\* const keys = await req.redis.keys(prefix*); if (keys.length) del ...
RedisKeys(t) ==
  LET r == tasks[t].req
      ks == RedisKeysResult(cache, InvalidationPrefix(r))
  IN /\ running = 0
     /\ tasks[t].pc = "keys"
     /\ \/ /\ Caught(t, "redis.keys")
           /\ UNCHANGED <<keyHist, dbSamples>>
        \/ /\ ks = {}
           /\ keyHist' = HistAfterWrite(
                HistAfterInvalidation({}, {InvalidationPrefix(r)}), cache, r)
           /\ WriteCompleted(t)
        \/ /\ ks # {}
           /\ tasks' = [tasks EXCEPT ![t].pc = "del", ![t].keys = ks]
           /\ UNCHANGED <<keyHist, dbSamples>>
     /\ UNCHANGED <<cache, db, running, cacheOps, started, connections, probe, httpVars,
                    findsStored>>

\* await req.redis.del(...keys)
RedisDel(t) ==
  LET r == tasks[t].req
  IN /\ running = 0
     /\ tasks[t].pc = "del"
     /\ \/ /\ Caught(t, "redis.del")
           /\ UNCHANGED <<cache, keyHist, dbSamples, findsStored>>
        \/ /\ cache' = RedisDelResult(cache, tasks[t].keys)
           /\ keyHist' = HistAfterWrite(
                HistAfterInvalidation(tasks[t].keys \cap DOMAIN cache,
                                      {InvalidationPrefix(r)}), cache', r)
           /\ findsStored' = FindsAfterRemoval(cache')
           /\ WriteCompleted(t)
     /\ UNCHANGED <<db, running, cacheOps, started, connections, probe, httpVars>>

Next ==
  \/ \E t \in Tasks : StartRead(t)
  \/ \E t \in Tasks : RedisGet(t)
  \/ \E t \in Tasks : DbFind(t)
  \/ \E t \in Tasks : DbEach(t)
  \/ \E t \in Tasks : DbFindById(t)
  \/ \E t \in Tasks : DbUserLookup(t)
  \/ \E t \in Tasks : RedisSetex(t)
  \/ \E t \in Tasks : StartWrite(t)
  \/ \E t \in Tasks : Spin(t)
  \/ \E t \in Tasks : SpinEnd(t)
  \/ \E t \in Tasks : TimerFires(t)
  \/ \E t \in Tasks : Connect(t)
  \/ \E t \in Tasks : Hash(t)
  \/ \E t \in Tasks : Items(t)
  \/ \E t \in Tasks : Save(t)
  \/ \E t \in Tasks : Update(t)
  \/ \E t \in Tasks : RedisDelOne(t)
  \/ \E t \in Tasks : RedisKeys(t)
  \/ \E t \in Tasks : RedisDel(t)
  \/ \E t \in Tasks : Finish(t)
  \/ Tick

Spec == Init /\ [][Next]_vars

(***************************************************************************)
(* The same handlers when no two of them overlap: a request is accepted    *)
(* only when every earlier one has been answered and its response has     *)
(* been sent.  No scenario is named.                                       *)
(***************************************************************************)
Quiet == \A u \in Tasks : tasks[u].pc = "idle"

SeqStartRead(t) == Quiet /\ AcceptRead(t, SeqMaxRequests, ReadRequests)

\* the writes of the sequential runs name no scenario
SeqWriteRequests == {r \in WriteRequests : r.scenario = ""}

SeqStartWrite(t) == Quiet /\ AcceptWrite(t, SeqMaxRequests, SeqWriteRequests)

SeqNext ==
  \/ \E t \in Tasks : SeqStartRead(t)
  \/ \E t \in Tasks : RedisGet(t)
  \/ \E t \in Tasks : DbFind(t)
  \/ \E t \in Tasks : DbEach(t)
  \/ \E t \in Tasks : DbFindById(t)
  \/ \E t \in Tasks : DbUserLookup(t)
  \/ \E t \in Tasks : RedisSetex(t)
  \/ \E t \in Tasks : SeqStartWrite(t)
  \/ \E t \in Tasks : Hash(t)
  \/ \E t \in Tasks : Items(t)
  \/ \E t \in Tasks : Save(t)
  \/ \E t \in Tasks : Update(t)
  \/ \E t \in Tasks : RedisDelOne(t)
  \/ \E t \in Tasks : RedisKeys(t)
  \/ \E t \in Tasks : RedisDel(t)
  \/ \E t \in Tasks : Finish(t)
  \/ Tick

SeqSpec == Init /\ [][SeqNext]_vars

(***************************************************************************)
(* Reads of the users lists (two pages) and of the products list together  *)
(* with writes of users.                                                   *)
(***************************************************************************)
RaceMaxRequests == 3

RaceReadRequests ==
  {Req("GET_users", 0, "", ""), UsersPage2, Req("GET_products", 0, "", "")}

RaceWriteRequests == {Req("POST_users", 0, "", "")}

RaceStartRead(t) == AcceptRead(t, RaceMaxRequests, RaceReadRequests)

RaceStartWrite(t) == AcceptWrite(t, RaceMaxRequests, RaceWriteRequests)

RaceNext ==
  \/ \E t \in Tasks : RaceStartRead(t)
  \/ \E t \in Tasks : RedisGet(t)
  \/ \E t \in Tasks : DbFind(t)
  \/ \E t \in Tasks : DbEach(t)
  \/ \E t \in Tasks : RedisSetex(t)
  \/ \E t \in Tasks : RaceStartWrite(t)
  \/ \E t \in Tasks : Hash(t)
  \/ \E t \in Tasks : Save(t)
  \/ \E t \in Tasks : RedisKeys(t)
  \/ \E t \in Tasks : RedisDel(t)
  \/ \E t \in Tasks : Finish(t)
  \/ Tick

RaceSpec == Init /\ [][RaceNext]_vars

(***************************************************************************)
(* Writes whose body carries a number for the scenario.                    *)
(***************************************************************************)
ParamMaxRequests == 2

\* milliseconds sent with the request
ParamInputs == {Num(400), Num(800)}

ParamWriteRequests ==
  {[Req(ep, 0, sc, "") EXCEPT !.param = n] :
     ep \in {"POST_users", "POST_orders"},
     sc \in {"cpuIntensive", "blockEventLoop", "slowIO"},
     n \in ParamInputs}

ParamStartWrite(t) == AcceptWrite(t, ParamMaxRequests, ParamWriteRequests)

ParamNext ==
  \/ \E t \in Tasks : ParamStartWrite(t)
  \/ \E t \in Tasks : Spin(t)
  \/ \E t \in Tasks : SpinEnd(t)
  \/ \E t \in Tasks : TimerFires(t)
  \/ \E t \in Tasks : Hash(t)
  \/ \E t \in Tasks : Items(t)
  \/ \E t \in Tasks : Save(t)
  \/ \E t \in Tasks : RedisKeys(t)
  \/ \E t \in Tasks : Finish(t)

ParamSpec == Init /\ [][ParamNext]_vars

(***************************************************************************)
(* The key and the effective query of two requests of one list endpoint,   *)
(* for raw query parameters drawn from small sets.                         *)
(***************************************************************************)
Chars(w) ==
  CASE w = "all" -> <<"a", "l", "l">>
    [] w = "max" -> <<"m", "a", "x">>
    [] w = "a:b" -> <<"a", ":", "b">>
    [] w = "01" -> <<"0", "1">>
    [] w = "1abc" -> <<"1", "a", "b", "c">>
    [] w = "5.0" -> <<"5", ".", "0">>
    [] w = "shipped" -> <<"s", "h", "i", "p", "p", "e", "d">>
    [] OTHER -> <<w>>

Raw(ws) == {Undef} \cup {Str(Chars(w)) : w \in ws}

RawPages == Raw({"1", "01", "1abc", "2"})

RawLimits == Raw({"5"})

RawCategories == Raw({"all", "a:b"})

RawMinPrices == Raw({"0", "5"})

RawMaxPrices == Raw({"5", "5.0"})

RawStatuses == Raw({"all", "shipped"})

RawUserIds == Raw({"all", "7"})

UsersQueries ==
  {[EmptyQuery EXCEPT !.page = pg, !.limit = lm] :
     pg \in RawPages, lm \in RawLimits}

ProductsQueries ==
  {[EmptyQuery EXCEPT !.category = c, !.minPrice = lo, !.maxPrice = hi,
                      !.page = pg] :
     c \in RawCategories, lo \in RawMinPrices, hi \in RawMaxPrices,
     pg \in RawPages}

OrdersQueries ==
  {[EmptyQuery EXCEPT !.status = st, !.userId = u, !.page = pg, !.limit = lm] :
     st \in RawStatuses, u \in RawUserIds, pg \in RawPages, lm \in RawLimits}

Probe(ep, a, b, keyA, keyB, queryA, queryB) ==
  [ep |-> ep, a |-> a, b |-> b, keyA |-> keyA, keyB |-> keyB,
   queryA |-> queryA, queryB |-> queryB]

KeyFrame ==
  /\ probe = NoProbe
  /\ UNCHANGED <<cache, keyHist, findsStored, db, tasks, running, cacheOps,
              dbSamples, started, connections, httpVars>>

ProbeUsers ==
  /\ KeyFrame
  /\ \E a \in UsersQueries, b \in UsersQueries :
       probe' = Probe("GET_users", a, b, usersCacheKey(a), usersCacheKey(b),
                      usersQuery(a), usersQuery(b))

ProbeProducts ==
  /\ KeyFrame
  /\ \E a \in ProductsQueries, b \in ProductsQueries :
       probe' = Probe("GET_products", a, b, productsCacheKey(a),
                      productsCacheKey(b), productsQuery(a), productsQuery(b))

ProbeOrders ==
  /\ KeyFrame
  /\ \E a \in OrdersQueries, b \in OrdersQueries :
       probe' = Probe("GET_orders", a, b, ordersCacheKey(a), ordersCacheKey(b),
                      ordersQuery(a), ordersQuery(b))

KeyNext == ProbeUsers \/ ProbeProducts \/ ProbeOrders

KeySpec == Init /\ [][KeyNext]_vars

(***************************************************************************)
(* The Express pipeline of app.js: body parser, metrics middleware,        *)
(* routers, final handlers. The route handlers are seen by the status      *)
(* they answer with.                                                       *)
(***************************************************************************)
HttpMaxRequests == 3

\* a route parameter of a route path
Param == ":id"

Route(method, path) == [matched |-> TRUE, method |-> method, path |-> path]

\* router.get / router.post / router.put of the three routers, app.get
RoutesOf(router) ==
  CASE router = "users" ->
         {Route("GET", <<>>), Route("POST", <<>>), Route("GET", <<"search">>)}
    [] router = "products" ->
         {Route("GET", <<>>), Route("POST", <<>>), Route("GET", <<Param>>)}
    [] router = "orders" ->
         {Route("GET", <<>>), Route("POST", <<>>), Route("GET", <<Param>>),
          Route("PUT", <<Param, "status">>)}
    [] OTHER -> {Route("GET", <<"metrics">>), Route("GET", <<"health">>)}

RoutePaths ==
  {rt.path : rt \in UNION {RoutesOf(r) :
                             r \in {"users", "products", "orders", "app"}}}

\* app.use('/api/users', ...): the router a path is handed to
MountOf(path) ==
  IF Len(path) >= 2 /\ path[1] = "api"
       /\ path[2] \in {"users", "products", "orders"}
  THEN path[2] ELSE "app"

\* the path inside the router: the mount path is stripped
PathIn(router, path) ==
  IF router = "app" THEN path ELSE SubSeq(path, 3, Len(path))

\* a route path matches a request path
Matches(pattern, path) ==
  /\ Len(pattern) = Len(path)
  /\ \A i \in 1..Len(pattern) : pattern[i] = Param \/ pattern[i] = path[i]

\* req.route once the routers have been tried
RouteOf(method, path) ==
  LET router == MountOf(path)
      found == {rt \in RoutesOf(router) :
                  rt.method = method /\ Matches(rt.path, PathIn(router, path))}
  IN IF found = {} THEN NoRoute ELSE CHOOSE rt \in found : TRUE

\* the statuses that the handler of a route answers with
StatusesOf(router, rt) ==
  IF router = "app" THEN {200}
  ELSE IF rt.method = "POST" THEN {201, 500}
  ELSE IF \E i \in 1..Len(rt.path) : rt.path[i] = Param THEN {200, 404, 500}
  ELSE {200, 500}

\* req.route?.path || req.path
RouteLabel(rt, path) == IF rt.matched THEN rt.path ELSE path

\* .labels(req.method, req.route?.path || req.path, res.statusCode.toString())
HttpLabels(x) ==
  <<x.req.method, RouteLabel(x.route, x.req.path), NatToStr(x.status)>>

\* .observe(v) and .inc() of a labelled child
Recorded(metric, labels) ==
  IF labels \in DOMAIN metric
  THEN [metric EXCEPT ![labels] = @ + 1]
  ELSE [l \in DOMAIN metric \cup {labels} |->
          IF l = labels THEN 1 ELSE metric[l]]

HttpRequests ==
  {HttpReq("GET", <<"api", "users">>, FALSE),
   HttpReq("POST", <<"api", "users">>, FALSE),
   HttpReq("POST", <<"api", "users">>, TRUE),
   HttpReq("GET", <<"api", "users", "search">>, FALSE),
   HttpReq("GET", <<"api", "users", "1">>, FALSE),
   HttpReq("GET", <<"api", "products", "1">>, FALSE),
   HttpReq("GET", <<"api", "products", "2">>, FALSE),
   HttpReq("DELETE", <<"api", "products", "1">>, FALSE),
   HttpReq("PUT", <<"api", "orders", "1", "status">>, FALSE),
   HttpReq("GET", <<"metrics">>, FALSE),
   HttpReq("GET", <<"health">>, FALSE),
   HttpReq("GET", <<"favicon.ico">>, FALSE)}

HttpFrame ==
  UNCHANGED <<cache, keyHist, findsStored, db, tasks, running, cacheOps,
              dbSamples, connections, probe>>

\* a request arrives: express.json(), then the metrics middleware registers
\* its 'finish' listener, then the routers are tried
HttpArrive(x) ==
  /\ exchanges[x].phase = "idle"
  /\ started < HttpMaxRequests
  /\ started' = started + 1
  /\ \E rq \in HttpRequests :
       LET rt == RouteOf(rq.method, rq.path)
           open == [NoExchange EXCEPT !.req = rq]
       IN exchanges' = [exchanges EXCEPT ![x] =
            IF rq.malformed
            THEN \* the body parser passes an error: the middleware that
                 \* follows is skipped, the error handler answers 500
                 [open EXCEPT !.phase = "responded", !.status = 500]
            ELSE IF ~rt.matched
            THEN \* no route: the final handler answers 404
                 [open EXCEPT !.phase = "responded", !.status = 404,
                              !.listening = TRUE]
            ELSE [open EXCEPT !.phase = "handling", !.route = rt,
                              !.listening = TRUE]]
  /\ UNCHANGED <<httpDuration, httpRequestCounter>>
  /\ HttpFrame

\* the handler of the route answers
HttpRespond(x) ==
  /\ exchanges[x].phase = "handling"
  /\ \E st \in StatusesOf(MountOf(exchanges[x].req.path), exchanges[x].route) :
       exchanges' = [exchanges EXCEPT ![x].phase = "responded",
                                      ![x].status = st]
  /\ UNCHANGED <<httpDuration, httpRequestCounter, started>>
  /\ HttpFrame

\* res.on('finish', ...): the response has been handed to the socket
OnFinish(x) ==
  /\ exchanges[x].phase = "responded"
  /\ IF exchanges[x].listening
     THEN /\ httpDuration' = Recorded(httpDuration, HttpLabels(exchanges[x]))
          /\ httpRequestCounter' =
               Recorded(httpRequestCounter, HttpLabels(exchanges[x]))
     ELSE UNCHANGED <<httpDuration, httpRequestCounter>>
  /\ exchanges' = [exchanges EXCEPT ![x] = NoExchange]
  /\ UNCHANGED started
  /\ HttpFrame

HttpNext ==
  \/ \E x \in Tasks : HttpArrive(x)
  \/ \E x \in Tasks : HttpRespond(x)
  \/ \E x \in Tasks : OnFinish(x)

HttpSpec == Init /\ [][HttpNext]_vars

(***************************************************************************)
(* Steps, as seen from outside the handlers.                               *)
(***************************************************************************)
KeyOfTask(t) == CacheKeyOf(tasks[t].req)

Stored(k) == keyHist[k] \in {"stored", "restored", "survived"}

\* redis.get of task t returns in this step
GetReturned(t) ==
  /\ tasks[t].pc = "get"
  /\ tasks'[t].pc # "get"
  /\ tasks'[t].cause # "redis.get"

\* redis.get of task t is rejected in this step
GetRejected(t) ==
  /\ tasks[t].pc = "get"
  /\ tasks'[t].pc = "done"
  /\ tasks'[t].cause = "redis.get"

ReportsHit(t) ==
  /\ cacheOps' = [cacheOps EXCEPT !.hit = @ + 1]
  /\ tasks'[t].pc = "done"
  /\ tasks'[t].cause = "hit"
  /\ tasks'[t].resp.status = 200

ReportsMiss(t) ==
  /\ cacheOps' = [cacheOps EXCEPT !.miss = @ + 1]
  /\ tasks'[t].pc \in {"find", "findById"}

\* task t stores its value in this step
Stores(t) ==
  /\ tasks[t].pc = "setex"
  /\ tasks'[t].pc = "done"
  /\ tasks'[t].cause = "miss"

\* task t answers 404 to a read in this step
NotFound(t) ==
  /\ tasks[t].pc = "findById"
  /\ tasks'[t].pc = "done"
  /\ tasks'[t].cause = "notfound"

\* the invalidation of write task t completes in this step
InvalidationCompletes(t) ==
  /\ tasks[t].pc \in {"keys", "del"}
  /\ tasks'[t].pc = "done"
  /\ tasks'[t].cause = "written"

Alone(t) == \A u \in Tasks \ {t} : tasks[u].pc \in {"idle", "done"}

(***************************************************************************)
(* C1                                                                      *)
(***************************************************************************)
\* C1, as stated, for reads that do not overlap and none of whose calls
\* fails: the read of a key never written reports miss, and while no
\* invalidation has completed and no time has passed since a read of the
\* key reported miss or stored it, a read of the key reports hit.
C1_FirstMissThenHit ==
  [][\A t \in Tasks :
       (GetReturned(t) /\ Alone(t)) =>
         /\ keyHist[KeyOfTask(t)] = "never" => ReportsMiss(t)
         /\ keyHist[KeyOfTask(t)] \in {"missed", "stored", "restored"}
              => ReportsHit(t)]_vars

\* C1 amended: a read whose redis.get returns reports hit when the key
\* is stored (a read stored it and neither its TTL has run out nor an
\* invalidation has deleted it since) and miss otherwise, in particular when
\* the key was never written; a key is stored only by a read that missed and
\* whose database computation succeeded; a by-id read of an id that is not
\* in the database answers 404 and stores nothing, so that the reads of that
\* id that follow report miss again.
C1_HitIffStored ==
  [][/\ \A t \in Tasks :
          /\ GetReturned(t) =>
               IF Stored(KeyOfTask(t)) THEN ReportsHit(t) ELSE ReportsMiss(t)
          /\ NotFound(t) =>
               /\ cache' = cache
               /\ ~Stored(KeyOfTask(t))'
               /\ tasks'[t].resp.status = 404
     /\ \A k \in ReadKeys :
          (Stored(k)' /\ ~Stored(k)) =>
            \E t \in Tasks : Stores(t) /\ KeyOfTask(t) = k /\ tasks[t].val # Null
     /\ \A k \in ReadKeys : Stored(k)' <=> k \in DOMAIN cache']_vars

\* a second read of a key has reported hit
C1_Witness ==
  \E t \in Tasks :
    /\ tasks[t].pc = "done"
    /\ tasks[t].cause = "hit"
    /\ cacheOps = [hit |-> 1, miss |-> 1]

(***************************************************************************)
(* C2                                                                      *)
(***************************************************************************)
\* C2, as stated: when the invalidation of a write completes, no stored key
\* begins with its prefix, and the keys that do not begin with the prefix
\* are stored as before.
C2_NoPrefixKeyRemains ==
  [][\A t \in Tasks :
       InvalidationCompletes(t) =>
         /\ \A k \in DOMAIN cache' :
              ~StartsWith(k, InvalidationPrefix(tasks[t].req))
         /\ \A k \in DOMAIN cache :
              ~StartsWith(k, InvalidationPrefix(tasks[t].req))
                => k \in DOMAIN cache' /\ cache'[k] = cache[k]]_vars

\* C2 amended: redis.keys returns exactly the stored keys that begin with
\* the prefix at the time of the scan, and redis.del deletes exactly the keys
\* that the scan returned; every other key keeps its value and its remaining
\* TTL, also a key beginning with the prefix that a concurrent read stored
\* after the scan, which remains stored when the invalidation completes.
C2_DeletesScannedKeys ==
  [][\A t \in Tasks :
       /\ (tasks[t].pc = "keys" /\ tasks'[t].pc = "del") =>
            /\ tasks'[t].keys =
                 {k \in DOMAIN cache :
                    StartsWith(k, InvalidationPrefix(tasks[t].req))}
            /\ cache' = cache
       /\ (tasks[t].pc = "keys" /\ InvalidationCompletes(t)) =>
            /\ cache' = cache
            /\ \A k \in DOMAIN cache :
                 ~StartsWith(k, InvalidationPrefix(tasks[t].req))
       /\ (tasks[t].pc = "del" /\ InvalidationCompletes(t)) =>
            /\ DOMAIN cache' = DOMAIN cache \ tasks[t].keys
            /\ \A k \in DOMAIN cache' : cache'[k] = cache[k]
            /\ \A k \in tasks[t].keys :
                 StartsWith(k, InvalidationPrefix(tasks[t].req))]_vars

\* an invalidation of users:* has deleted users:1:10 and has left the
\* products list
C2_Witness ==
  \E t \in Tasks :
    /\ tasks[t].pc = "done"
    /\ tasks[t].cause = "written"
    /\ keyHist[usersCacheKey(EmptyQuery)] = "invalidated"
    /\ usersCacheKey(EmptyQuery) \notin DOMAIN cache
    /\ productsCacheKey(EmptyQuery) \in DOMAIN cache

(***************************************************************************)
(* C3                                                                      *)
(***************************************************************************)
\* C3: a read stores with setex the value that it computed after its miss,
\* whatever has been written to the database and invalidated since; and a
\* read that hits an entry returns what is stored and leaves it as it is.
C3_StoresWhatItComputed ==
  [][\A t \in Tasks :
       /\ Stores(t) =>
            /\ KeyOfTask(t) \in DOMAIN cache'
            /\ cache'[KeyOfTask(t)].val = JSONstringify(tasks[t].val)
       /\ (GetReturned(t) /\ tasks'[t].cause = "hit") =>
            /\ cache' = cache
            /\ tasks'[t].resp.body = cache[KeyOfTask(t)].val]_vars

\* a read and a write of one collection have both been answered; the read
\* missed, the invalidation of the write completed, then the read stored:
\* the stored value is not what the database returns now
C3_Witness ==
  \E r \in Tasks, w \in Tasks :
    /\ tasks[r].pc = "done" /\ tasks[r].cause = "miss"
    /\ tasks[w].pc = "done" /\ tasks[w].cause = "written"
    /\ CollOf(tasks[r].req) = CollOf(tasks[w].req)
    /\ keyHist[KeyOfTask(r)] = "restored"
    /\ KeyOfTask(r) \in DOMAIN cache
    /\ cache[KeyOfTask(r)].val # JSONstringify(Compute(db, tasks[r].req))
    /\ tasks[r].resp.body = cache[KeyOfTask(r)].val

(***************************************************************************)
(* C4                                                                      *)
(***************************************************************************)
\* C4: no handler answers 500 because createBottleneck was given a name
\* that is not a registered scenario.
C4_UnknownNameIsNoError ==
  \A t \in Tasks :
    ~ /\ tasks[t].pc = "done"
      /\ tasks[t].cause = "scenario"
      /\ tasks[t].req.scenario \notin RegisteredScenarios

(***************************************************************************)
(* C5                                                                      *)
(***************************************************************************)
\* C5: a task inside the loop of cpuIntensive or blockEventLoop holds the
\* event loop until the loop ends, and while it does, no other task takes a
\* step: no request is accepted, nothing is computed, stored, counted or
\* answered; only the Redis server's clock goes on.
C5_Starvation ==
  /\ [](\A t \in Tasks : tasks[t].pc = "spin" => running = t)
  /\ [][running # 0 =>
          /\ \A u \in Tasks \ {running} : tasks'[u] = tasks[u]
          /\ tasks'[running].pc # "spin" => tasks[running].elapsed >=
               ScenarioParam(tasks[running].req.scenario, Undef)
          /\ UNCHANGED <<db, cacheOps, dbSamples, started, connections>>
          /\ cache' \in {cache, RedisExpire(cache, TickSeconds)}]_vars

\* a scenario loop is under way while another handler is in flight
C5_Witness ==
  \E t \in Tasks, u \in Tasks :
    /\ running = t
    /\ tasks[t].pc = "spin"
    /\ tasks[t].elapsed > 0
    /\ u # t
    /\ tasks[u].pc \notin {"idle", "done"}

(***************************************************************************)
(* C6                                                                      *)
(***************************************************************************)
\* C6: when the reads of a key follow one another, the database is not
\* queried for a key while it is stored; a read that finds the key stored
\* reports hit, answers with the stored text, and leaves the cache (value
\* and remaining TTL), the database and the query samples as they are; the
\* read that stored the key answered with the text it stored; and the first
\* read of a key after an invalidation has deleted it goes to the database.
C6_ComputedOnce ==
  /\ [](\A k \in DOMAIN cache : findsStored[k] = 0)
  /\ [][\A t \in Tasks :
          /\ (GetReturned(t) /\ Stored(KeyOfTask(t))) =>
               /\ ReportsHit(t)
               /\ tasks'[t].resp.body = cache[KeyOfTask(t)].val
               /\ UNCHANGED <<cache, db, dbSamples>>
          /\ Stores(t) =>
               /\ tasks'[t].resp.body = cache'[KeyOfTask(t)].val
               /\ dbSamples' = [dbSamples EXCEPT
                    ![<<FindOp(tasks[t].req), CollOf(tasks[t].req)>>] = @ + 1]
          /\ (GetReturned(t) /\ keyHist[KeyOfTask(t)] = "invalidated") =>
               ReportsMiss(t)]_vars

\* the second of two reads has been answered from the cache with the text
\* that the first stored, after one query of the database
C6_Witness ==
  \E t \in Tasks :
    /\ tasks[t].pc = "done"
    /\ tasks[t].cause = "hit"
    /\ started = 2
    /\ KeyOfTask(t) \in DOMAIN cache
    /\ tasks[t].resp.body = cache[KeyOfTask(t)].val
    /\ dbSamples[<<FindOp(tasks[t].req), CollOf(tasks[t].req)>>] = 1
    /\ \A l \in DbLabels :
         l # <<FindOp(tasks[t].req), CollOf(tasks[t].req)>> => dbSamples[l] = 0

(***************************************************************************)
(* C7                                                                      *)
(***************************************************************************)
ClaimedTTL(k) ==
  CASE StartsWith(k, UsersPrefix) -> 60
    [] StartsWith(k, OrdersPrefix) -> 120
    [] StartsWith(k, ProductsPrefix) -> 300
    [] StartsWith(k, OrderPrefix) -> 300
    [] StartsWith(k, ProductPrefix) -> 600

\* C7: every stored entry has a TTL of at least one second, and the
\* seconds it has been stored and the seconds it has left add up to 60 for a
\* users list, 120 for an orders list, 300 for a products list and an order
\* by id, 600 for a product by id; a read that hits leaves the remaining
\* TTL as it is; and the read of a key whose TTL has run out reports miss
\* and goes to the database.
C7_TTL ==
  /\ [](\A k \in DOMAIN cache :
          /\ cache[k].ttl \in 1..ClaimedTTL(k)
          /\ cache[k].age >= 0
          /\ cache[k].ttl + cache[k].age = ClaimedTTL(k))
  /\ [][\A t \in Tasks :
          /\ (GetReturned(t) /\ tasks'[t].cause = "hit") =>
               cache'[KeyOfTask(t)].ttl = cache[KeyOfTask(t)].ttl
          /\ (GetReturned(t) /\ keyHist[KeyOfTask(t)] = "expired") =>
               ReportsMiss(t)]_vars

\* the products list was stored by a first read, its 300 seconds have run
\* out, and a second read has missed and is at its query
C7_Witness ==
  \E t \in Tasks :
    /\ tasks[t].req.ep = "GET_products"
    /\ tasks[t].pc = "find"
    /\ started = 2
    /\ cacheOps = [hit |-> 0, miss |-> 2]
    /\ dbSamples[<<"find", "products">>] = 1
    /\ KeyOfTask(t) \notin DOMAIN cache

(***************************************************************************)
(* C8                                                                      *)
(***************************************************************************)
\* C8: two requests of one list endpoint whose database queries (filter,
\* skip, limit) differ have different cache keys.
C8_KeysDoNotCollide ==
  probe # NoProbe =>
    (probe.queryA # probe.queryB => probe.keyA # probe.keyB)

(***************************************************************************)
(* C9                                                                      *)
(***************************************************************************)
\* C9: two requests of one list endpoint whose database queries (filter,
\* skip, limit) are the same have the same cache key.
C9_KeysAreCanonical ==
  probe # NoProbe =>
    (probe.queryA = probe.queryB => probe.keyA = probe.keyB)

(***************************************************************************)
(* C10                                                                     *)
(***************************************************************************)
\* the part of C10 about the counters, the database and the store: a
\* rejected redis.get ends the read with status 500 and changes neither
\* the counters, nor the query samples, nor the cache
C10_NotAMiss ==
  [][\A t \in Tasks :
       GetRejected(t) =>
         /\ tasks'[t].resp.status = 500
         /\ UNCHANGED <<cacheOps, dbSamples, db, cache>>]_vars

\* C10: the answer to a read whose redis.get was rejected differs from
\* the answer to a read of the same request whose database query was
\* rejected.
C10_Distinguishable ==
  \A t \in Tasks, u \in Tasks :
    ( /\ tasks[t].pc = "done" /\ tasks[t].cause = "redis.get"
      /\ tasks[u].pc = "done" /\ tasks[u].cause = "db"
      /\ IsRead(tasks[u].req)
      /\ tasks[t].req = tasks[u].req )
    => tasks[t].resp # tasks[u].resp

(***************************************************************************)
(* C11                                                                     *)
(***************************************************************************)
\* a database call of read task t is rejected in this step
DbFails(t) ==
  /\ IsRead(tasks[t].req)
  /\ tasks[t].pc \in {"find", "each", "findById", "user"}
  /\ tasks'[t].pc = "done"
  /\ tasks'[t].cause = "db"

\* C11: when a database call of a read is rejected after the miss, the
\* read is answered 500 with the message of the error, and that step changes
\* neither the cache nor the query samples and leaves the key not stored by
\* this read; no step that a read takes before its setex changes the cache.
C11_ComputeFailure ==
  [][\A t \in Tasks :
       /\ DbFails(t) =>
            /\ tasks'[t].resp.status = 500
            /\ tasks'[t].resp.body[1] = "error"
            /\ tasks'[t].resp.body[2] \in ErrorMessages
            /\ cache' = cache
            /\ dbSamples' = dbSamples
       /\ ( /\ IsRead(tasks[t].req)
            /\ tasks[t].pc \in {"get", "find", "each", "findById", "user"}
            /\ tasks'[t] # tasks[t] ) => cache' = cache]_vars

\* a first read of a key has missed, its database call was rejected and it
\* was answered 500; the key is not stored and no sample is recorded
C11_Witness ==
  \E t \in Tasks :
    /\ tasks[t].pc = "done"
    /\ tasks[t].cause = "db"
    /\ IsRead(tasks[t].req)
    /\ tasks[t].resp.status = 500
    /\ KeyOfTask(t) \notin DOMAIN cache
    /\ keyHist[KeyOfTask(t)] = "failed"
    /\ cacheOps = [hit |-> 0, miss |-> 1]
    /\ \A l \in DbLabels : dbSamples[l] = 0

(***************************************************************************)
(* C12                                                                     *)
(***************************************************************************)
\* C12: when requests are served one after another, the read of a key of
\* a resource kind that follows an answered write of that kind (the key was
\* deleted by its invalidation, or was stored when the write was answered)
\* reports miss and goes to the database.
C12_ReadAfterWriteMisses ==
  [][\A t \in Tasks :
       ( /\ GetReturned(t)
         /\ Alone(t)
         /\ keyHist[KeyOfTask(t)] \in {"invalidated", "survived"} )
       => ReportsMiss(t)]_vars

(***************************************************************************)
(* C13                                                                     *)
(***************************************************************************)
\* C13: the route label of every labelled child of
\* http_request_duration_seconds and of http_requests_total is the declared
\* path of a route of the application.
C13_RouteLabelsAreRoutePaths ==
  \A l \in DOMAIN httpDuration \cup DOMAIN httpRequestCounter :
    l[2] \in RoutePaths

(***************************************************************************)
(* C14                                                                     *)
(***************************************************************************)
\* C14: a write handler that was given one of the five scenarios is at
\* the scenario, and at no later step, until the scenario has finished; the
\* step that ends the scenario (the loop has run for its duration, the timer
\* fires, the connection is made) takes the handler to its first step after
\* createBottleneck and neither writes the database, nor touches the cache,
\* nor records a sample, nor answers.
C14_ScenarioFirst ==
  /\ [](\A t \in Tasks :
          tasks[t].req.scenario \in RegisteredScenarios =>
            /\ tasks[t].pc \in {"spin", "timer", "connect"}
            /\ tasks[t].resp = NoResp)
  /\ [][\A t \in Tasks :
          ( /\ tasks[t].req.scenario \in RegisteredScenarios
            /\ tasks'[t] # tasks[t] ) =>
          \/ /\ tasks'[t].req = tasks[t].req
             /\ tasks'[t].pc = "spin"
             /\ tasks[t].elapsed <
                  ScenarioParam(tasks[t].req.scenario, Undef)
          \/ /\ tasks'[t].req.scenario = ""
             /\ tasks'[t].pc = AfterScenarioPc(tasks[t].req)
             /\ tasks[t].pc = "spin" =>
                  tasks[t].elapsed >= ScenarioParam(tasks[t].req.scenario, Undef)
             /\ UNCHANGED <<db, cache, dbSamples>>]_vars

\* a write given a scenario is past it while another write is still
\* waiting for its timer
C14_Witness ==
  \E t \in Tasks, u \in Tasks :
    /\ tasks[t].pc \in {"hash", "items"}
    /\ tasks[t].req.scenario = ""
    /\ connections = 1
    /\ tasks[u].pc = "timer"

(***************************************************************************)
(* C15                                                                     *)
(***************************************************************************)
\* C15: every cache lookup whose redis.get returns increments exactly one
\* of cache_operations_total{get,hit} and {get,miss}, by one, whatever the
\* other handlers in flight have done in between; no other step changes the
\* two counters; so their sum is the number of lookups that returned, it
\* never exceeds the number of requests accepted, and neither counter ever
\* decreases.
C15_NoLostUpdate ==
  /\ [](cacheOps.hit + cacheOps.miss <= started)
  /\ [][/\ \A t \in Tasks :
             GetReturned(t) =>
               \/ cacheOps' = [hit |-> cacheOps.hit + 1, miss |-> cacheOps.miss]
               \/ cacheOps' = [hit |-> cacheOps.hit, miss |-> cacheOps.miss + 1]
        /\ cacheOps' # cacheOps => \E t \in Tasks : GetReturned(t)
        /\ cacheOps'.hit >= cacheOps.hit
        /\ cacheOps'.miss >= cacheOps.miss]_vars

\* two reads are in flight together, both past their lookup, and both
\* lookups have been counted
C15_Witness ==
  /\ \A t \in Tasks :
       /\ IsRead(tasks[t].req)
       /\ tasks[t].pc \in {"find", "each", "findById", "user", "setex"}
  /\ cacheOps = [hit |-> 0, miss |-> 2]

(***************************************************************************)
(* C16                                                                     *)
(***************************************************************************)
\* C16: the number of connections opened by dbConnectionLeak never
\* decreases; the step in which a handler's dbConnectionLeak scenario runs
\* adds exactly one; no other step changes the number, in particular no
\* step of a handler that was given one of the other four scenarios.
C16_ConnectionsGrow ==
  [][/\ connections' >= connections
     /\ \A t \in Tasks :
          /\ (tasks[t].pc = "connect" /\ tasks'[t].pc # "connect") =>
               /\ tasks[t].req.scenario = "dbConnectionLeak"
               /\ connections' = connections + 1
          /\ ( /\ tasks[t].req.scenario \in
                    RegisteredScenarios \ {"dbConnectionLeak"}
               /\ tasks'[t] # tasks[t] ) => connections' = connections
     /\ connections' # connections =>
          \E t \in Tasks : tasks[t].pc = "connect" /\ tasks'[t].pc # "connect"
    ]_vars

\* two writes were given dbConnectionLeak: two connections are open, and
\* one of the writes has been answered
C16_Witness ==
  /\ connections = 2
  /\ \E t \in Tasks : tasks[t].pc = "done" /\ tasks[t].cause = "written"

(***************************************************************************)
(* C17                                                                     *)
(***************************************************************************)
\* C17: a handler that waits for the timer of slowIO or memoryIntensive
\* does not hold the event loop, and its timer fires only when the event
\* loop is free; the handlers of the other requests go on meanwhile.
C17_TimerDoesNotBlock ==
  /\ [](\A t \in Tasks : tasks[t].pc = "timer" => running # t)
  /\ [][\A t \in Tasks :
          (tasks[t].pc = "timer" /\ tasks'[t].pc # "timer") =>
            /\ running = 0
            /\ running' = 0
            /\ tasks'[t].pc = AfterScenarioPc(tasks[t].req)]_vars

\* the first request is still waiting for its timer; the second request
\* was accepted after it, has taken all its steps and has been answered
C17_Witness ==
  /\ started = 2
  /\ tasks[1].pc = "timer"
  /\ tasks[1].req.scenario \in {"slowIO", "memoryIntensive"}
  /\ tasks[2].pc = "done"
  /\ tasks[2].cause \in {"miss", "written"}
  /\ running = 0

(***************************************************************************)
(* C18                                                                     *)
(***************************************************************************)
\* C18: the loop of cpuIntensive or blockEventLoop of a request that
\* carries a number of milliseconds ends at the first iteration at which
\* that number of milliseconds has elapsed.
C18_RunsForGivenDuration ==
  [][\A t \in Tasks :
       ( /\ tasks[t].pc = "spin"
         /\ tasks'[t].pc # "spin"
         /\ tasks[t].req.param # Undef ) =>
       /\ tasks[t].elapsed >= tasks[t].req.param[2]
       /\ tasks[t].elapsed - LoopStepMs < tasks[t].req.param[2]]_vars

(***************************************************************************)
(* C19                                                                     *)
(***************************************************************************)
\* redis.keys or redis.del of write task t is rejected in this step
InvalidationFails(t) ==
  /\ tasks[t].pc \in {"del1", "keys", "del"}
  /\ tasks'[t].pc = "done"
  /\ tasks'[t].cause \in {"redis.keys", "redis.del"}

\* the document that write task t saved or updated is in its collection
Committed(t) ==
  /\ tasks[t].val # Null
  /\ tasks[t].val[2].id \in 1..CountOf(db, CollOf(tasks[t].req))

\* C19, as stated: when redis.keys or redis.del of a write is rejected,
\* the write is answered 500, its document is in the database, no sample is
\* recorded, and every key of its kind that was stored when the database
\* write was made is still stored, unless its TTL has run out.
C19_PreWriteEntriesRemain ==
  [][\A t \in Tasks :
       InvalidationFails(t) =>
         /\ tasks'[t].resp.status = 500
         /\ Committed(t)
         /\ db' = db
         /\ dbSamples' = dbSamples
         /\ \A k \in tasks[t].pre :
              k \in DOMAIN cache' \/ keyHist'[k] = "expired"]_vars

\* C19 amended: a write handler is at its invalidation only with its
\* document in the database, and no step takes a document out of the
\* database; the step in which redis.keys or redis.del is rejected answers
\* 500 and changes neither the database, nor the cache, nor the samples; and
\* the only step of a write handler, between its database write and the
\* completion of its invalidation, that changes the cache is the del of
\* order:<id> of PUT /:id/status, which removes that key alone.
C19_CommittedBeforeInvalidation ==
  /\ [](\A t \in Tasks :
          tasks[t].pc \in {"del1", "keys", "del"} => Committed(t))
  /\ [][/\ \A c \in {"users", "products", "orders"} :
             CountOf(db', c) >= CountOf(db, c)
        /\ \A i \in 1..Len(db.orders) :
             db.orders[i] # "pending" => db'.orders[i] = db.orders[i]
        /\ \A t \in Tasks :
             /\ InvalidationFails(t) =>
                  /\ tasks'[t].resp.status = 500
                  /\ tasks'[t].resp.body[2] \in ErrorMessages
                  /\ Committed(t)
                  /\ db' = db
                  /\ cache' = cache
                  /\ dbSamples' = dbSamples
             /\ ( /\ tasks[t].pc \in {"del1", "keys", "del"}
                  /\ tasks'[t] # tasks[t]
                  /\ cache' # cache ) =>
                  \/ InvalidationCompletes(t)
                  \/ /\ tasks[t].pc = "del1"
                     /\ tasks'[t].pc = "keys"
                     /\ cache' = RedisDelResult(cache,
                                   {orderCacheKey(tasks[t].req.id)})]_vars

\* a read stored a list of users, then POST /api/users saved its document
\* and its redis.keys or redis.del was rejected: it was answered 500, the
\* user is in the database, the list is still stored and no insert is
\* sampled
C19_Witness ==
  \E t \in Tasks :
    /\ tasks[t].pc = "done"
    /\ tasks[t].req.ep = "POST_users"
    /\ tasks[t].cause \in {"redis.keys", "redis.del"}
    /\ tasks[t].resp.status = 500
    /\ db.users = 1
    /\ \E k \in DOMAIN cache : StartsWith(k, UsersPrefix)
    /\ dbSamples[<<"insert", "users">>] = 0

(***************************************************************************)
(* C20                                                                     *)
(***************************************************************************)
\* the samples of db_query_duration_seconds recorded by the cached reads
FindSamples ==
  dbSamples[<<"find", "users">>] + dbSamples[<<"find", "products">>]
  + dbSamples[<<"findById", "products">>] + dbSamples[<<"find", "orders">>]
  + dbSamples[<<"findById", "orders">>]

\* task t is answered in this step
Answered(t) == tasks[t].pc # "done" /\ tasks'[t].pc = "done"

OneMoreSample(op, coll) ==
  dbSamples' = [dbSamples EXCEPT ![<<op, coll>>] = @ + 1]

\* C20: a handler records one db_query_duration_seconds sample, with its
\* own operation and collection, in the step that ends it after its database
\* work and all its cache steps (a read after its setex, a write after its
\* invalidation); a handler answered in any other way (a hit, a 404, a
\* failed call) records none, and no other step records one; so the find and
\* findById samples together never exceed the misses counted.
C20_SampleOncePerCompletion ==
  /\ [](FindSamples <= cacheOps.miss)
  /\ [][/\ \A t \in Tasks :
             /\ Stores(t) =>
                  OneMoreSample(FindOp(tasks[t].req), CollOf(tasks[t].req))
             /\ InvalidationCompletes(t) =>
                  OneMoreSample(WriteOp(tasks[t].req), CollOf(tasks[t].req))
             /\ ( /\ Answered(t)
                  /\ tasks'[t].cause \notin {"miss", "written"} ) =>
                  /\ dbSamples' = dbSamples
                  /\ tasks'[t].cause = "hit"
                       \/ tasks'[t].resp.status \in {404, 500}
        /\ dbSamples' # dbSamples =>
             \E t \in Tasks : Stores(t) \/ InvalidationCompletes(t)]_vars

\* two reads by id have missed: one found its product and stored it, the
\* other was answered 404; one sample is recorded for two misses
C20_Witness ==
  /\ cacheOps = [hit |-> 0, miss |-> 2]
  /\ \E t \in Tasks, u \in Tasks :
       /\ tasks[t].pc = "done" /\ tasks[t].cause = "miss"
       /\ tasks[t].resp.status = 200
       /\ tasks[u].pc = "done" /\ tasks[u].cause = "notfound"
       /\ tasks[u].resp.status = 404
  /\ FindSamples = 1
  /\ dbSamples[<<"findById", "products">>] + dbSamples[<<"findById", "orders">>]
       = 1

(***************************************************************************)
(* C21                                                                     *)
(***************************************************************************)
\* the value of the child of a metric with the given labels
ChildValue(metric, l) == IF l \in DOMAIN metric THEN metric[l] ELSE 0

\* the response of exchange x finishes in this step
Finishes(x) ==
  /\ exchanges[x].phase = "responded"
  /\ exchanges'[x].phase = "idle"

\* C21: the step in which a response finishes adds one observation to
\* http_request_duration_seconds and one to http_requests_total, both at the
\* labels (method, route, status) of that response, and changes no other
\* child; and in every state each label tuple has as many observations in
\* the histogram as the counter counts.
C21_EveryFinishCountedOnce ==
  /\ [](\A l \in DOMAIN httpDuration \cup DOMAIN httpRequestCounter :
          ChildValue(httpDuration, l) = ChildValue(httpRequestCounter, l))
  /\ [][\A x \in Tasks :
          Finishes(x) =>
            \A l \in DOMAIN httpDuration' \cup DOMAIN httpRequestCounter'
                     \cup {HttpLabels(exchanges[x])} :
              LET n == IF l = HttpLabels(exchanges[x]) THEN 1 ELSE 0
              IN /\ ChildValue(httpDuration', l) =
                      ChildValue(httpDuration, l) + n
                 /\ ChildValue(httpRequestCounter', l) =
                      ChildValue(httpRequestCounter, l) + n]_vars

TypeOK ==
  /\ DOMAIN cache \subseteq ReadKeys
  /\ \A k \in ReadKeys : k \in DOMAIN cache <=> Stored(k)
  /\ running \in Tasks \cup {0}
  /\ started \in 0..(MaxRequests + SeqMaxRequests + HttpMaxRequests)
  /\ \A t \in Tasks :
       tasks[t].req \in Requests \cup ParamWriteRequests \cup {NoReq}
  /\ \A x \in Tasks :
       /\ exchanges[x].phase \in {"idle", "handling", "responded"}
       /\ exchanges[x].req \in HttpRequests \cup {NoExchange.req}
  /\ DOMAIN httpDuration = DOMAIN httpRequestCounter

====
